---- MODULE Spec2Model ----
(***************************************************************************)
(* A model of led_monger: the interrupt-driven rotary encoder reader       *)
(* (RotaryEncoder.h), the potentiometer reader with hysteresis             *)
(* (Potentiometer, in the sketch file) and the control loop of the sketch  *)
(* (loop() in led_monger.ino).                                             *)
(*                                                                         *)
(* Pin states are the values of enc_cur_pos: bit 0 is "pin A reads LOW",   *)
(* bit 1 is "pin B reads LOW", so 0 = 00, 1 = 01, 2 = 10, 3 = 11.          *)
(* enc_flags_ is modelled as the set of the bit numbers that are set.      *)
(***************************************************************************)
EXTENDS Integers, Sequences, FiniteSets, TLC

(***************************************************************************)
(* Bounds of the model.                                                    *)
(***************************************************************************)
\* how many RotaryEncoder objects the construction specification builds
MaxInstances == 2
\* accepted clockwise / counter-clockwise steps counted in SpecIsr
MaxCW == 4
MaxCCW == 3
\* longest recorded excursion from the idle pin state
MaxPath == 5
\* calls of Potentiometer::update() recorded in SpecPot
MaxPotCalls == 4
\* pin-change interrupts delivered in SpecCtor and SpecMain
MaxIsrCalls == 4
\* invocations of pin_isr in progress at once in SpecMain
MaxNest == 2
\* the clean clockwise quarter-turns of one run (past the wrap of the counter)
MaxTurns == 257
\* the clean clockwise quarter-turns between the ticks of SpecTick
MaxTickTurns == 3

\* the max_index values an encoder is constructed with (4 is nr_progs)
Moduli == {1, 3, 4}

\* uint8_t arithmetic (rotary_index_ is a volatile uint8_t)
Uint8 == 256

\* instance_ == NULL
NULL == 0

Ids == 1..MaxInstances
PinStates == 0..3

\* the value of an observation that has not been made
None == 0 - 1

\* unsigned long, 32 bits wide, as <<high half, low half>> of 16 bits each
Half == 2 ^ 16
ToU32(n) == <<n \div Half, n % Half>>
Add32(a, b) ==
    <<(a[1] + b[1] + ((a[2] + b[2]) \div Half)) % Half, (a[2] + b[2]) % Half>>
Sub32(a, b) ==
    <<(a[1] - b[1] - (IF a[2] < b[2] THEN 1 ELSE 0)) % Half,
      (a[2] - b[2]) % Half>>
Less32(a, b) == a[1] < b[1] \/ (a[1] = b[1] /\ a[2] < b[2])
MaxU32 == <<Half - 1, Half - 1>>
\* an unsigned long local that is not assigned
Unset == <<>>

VARIABLES
    \* RotaryEncoder fields, one value per object
    enc_prev_pos_, enc_flags_, rotary_index_, max_index_,
    \* RotaryEncoder::instance_, the constructor's position per object, and
    \* whether pin_isr is attached to the pin-change interrupts
    instance_, ctor_pc, attached,
    \* whether pin_isr has run with instance_ == NULL
    isr_null,
    \* the global interrupt enable flag, the stack of pin_isr invocations in
    \* progress (each its position), and the number of invocations so far
    interruptsOn, isr_stack, isrCalls,
    \* the 7-segment display: the buffer print() fills and what writeDisplay()
    \* last sent to the device
    seg_buf, seg_shown,
    \* history: the samples (and the counter after each) since the handler
    \* last left the idle state, the counter at that moment, the number of
    \* accepted steps in each direction, and the pin state that the latest
    \* invocation sampled and whether it was the enc_prev_pos_ it found
    path, ctr0, nCW, nCCW, sampled, resampled,
    \* getIndex(): its local copy, the value it returned, and (history) the
    \* counter values that existed during the call
    gi_index, gi_ret, gi_seen,
    \* Potentiometer::current_bin_ and (history) the calls of update(): the
    \* reading, the bin before and after, and the value returned
    current_bin_, pot_log,
    \* loop(): its position, its locals freq, brightness and prog (the index
    \* into progs) and its loop counter, the global which_prog, the pins and
    \* the brightness of the one Adafruit_DotStar object, and (history) the
    \* calls made on the strip and the pattern in the current tick
    pc, freq, brightness, which_prog, prog, strip_i, strip_pins,
    strip_brightness, tick_log,
    \* the fields of the pattern objects blinker and rgb_blinker, the colour
    \* that the pixels of the strip's one buffer hold, (history) what show()
    \* sent for each channel of the current tick, and (history) blinker's
    \* field when the tick began
    blinker_on, rgb_blinker_on, rgb_blinker_rgb, strip_pixels, shown_log,
    on_at_start,
    \* loop()'s locals loop_start, interval_millis, loop_time and sleep_time
    \* (<<>> while not assigned), and (history) the milliseconds that the
    \* tick really took
    loop_start, interval_millis, loop_time, sleep_time, elapsed

encVars == <<enc_prev_pos_, enc_flags_, rotary_index_, max_index_>>
ctorVars == <<instance_, ctor_pc, attached, isr_null>>
intVars == <<interruptsOn, isr_stack, isrCalls>>
segVars == <<seg_buf, seg_shown>>
histVars == <<path, ctr0, nCW, nCCW, sampled, resampled>>
giVars == <<gi_index, gi_ret, gi_seen>>
potVars == <<current_bin_, pot_log>>
progVars == <<blinker_on, rgb_blinker_on, rgb_blinker_rgb, strip_pixels,
              shown_log, on_at_start>>
paceVars == <<loop_start, interval_millis, loop_time, sleep_time, elapsed>>
mainVars == <<pc, freq, brightness, which_prog, prog, strip_i, strip_pins,
              strip_brightness, tick_log, progVars, paceVars>>

vars == <<encVars, ctorVars, intVars, segVars, histVars, giVars, potVars,
          mainVars>>

(***************************************************************************)
(* RotaryEncoder::pin_isr, the decoding of one sampled pin state.          *)
(***************************************************************************)

\* a slip: a first-edge bit is set whatever state the pins come from
FirstEdgeFlags_AnyPrev(prev, cur, flags) ==
    IF cur = 1 THEN flags \cup {0}
    ELSE IF cur = 2 THEN flags \cup {1}
    ELSE flags

\* lines 52-61: the first edge away from the idle state
FirstEdgeFlags(prev, cur, flags) ==
    IF prev = 0
    THEN IF cur = 1 THEN flags \cup {0}
         ELSE IF cur = 2 THEN flags \cup {1}
         ELSE flags
    ELSE flags

\* lines 70-76: the final edge, back to the idle state
FinalEdgeFlags(prev, flags) ==
    IF prev = 2 THEN flags \cup {2}
    ELSE IF prev = 1 THEN flags \cup {3}
    ELSE flags

\* a slip: the first-edge bit of the other direction is tested
MatchCW_WrongBit(flags) ==
    1 \in flags /\ (2 \in flags \/ 4 \in flags)

\* a slip: the final edge or the middle state is not required
MatchCW_NoPair(flags) ==
    0 \in flags

\* line 81
MatchCW(flags) ==
    0 \in flags /\ (2 \in flags \/ 4 \in flags)

\* a slip: the middle state does not stand in for a missing final edge
MatchCCW_NoMid(flags) ==
    1 \in flags /\ 3 \in flags

\* line 85
MatchCCW(flags) ==
    1 \in flags /\ (3 \in flags \/ 4 \in flags)

\* a slip: a counter that stops at its largest value
Incremented_Saturating(idx) == IF idx = Uint8 - 1 THEN idx ELSE idx + 1

\* lines 82, 86: ++ and -- on a uint8_t
Incremented(idx) == (idx + 1) % Uint8
Decremented(idx) == (idx - 1) % Uint8

\* a slip: every sample is decoded as a change of the pins
SamplesDiffer_Always(prev, cur) == TRUE

\* line 49: enc_cur_pos != enc_prev_pos_
SamplesDiffer(prev, cur) == cur # prev

\* lines 49-94: the new enc_prev_pos_, enc_flags_, rotary_index_ and the local
\* "change" after an invocation that samples cur; step names the branch of
\* lines 81-88 that was taken
IsrBody(prev, flags, idx, cur) ==
    IF ~SamplesDiffer(prev, cur)
    THEN [prev |-> cur, flags |-> flags, idx |-> idx, change |-> FALSE,
          step |-> "none"]
    ELSE LET f1 == FirstEdgeFlags(prev, cur, flags)
         IN  IF cur = 3
             THEN [prev |-> cur, flags |-> f1 \cup {4}, idx |-> idx,
                   change |-> FALSE, step |-> "none"]
             ELSE IF cur = 0
             THEN LET f2 == FinalEdgeFlags(prev, f1)
                  IN  IF MatchCW(f2)
                      THEN [prev |-> cur, flags |-> {},
                            idx |-> Incremented(idx), change |-> TRUE,
                            step |-> "cw"]
                      ELSE IF MatchCCW(f2)
                      THEN [prev |-> cur, flags |-> {},
                            idx |-> Decremented(idx), change |-> TRUE,
                            step |-> "ccw"]
                      ELSE [prev |-> cur, flags |-> {}, idx |-> idx,
                            change |-> FALSE, step |-> "none"]
             ELSE [prev |-> cur, flags |-> f1, idx |-> idx, change |-> FALSE,
                   step |-> "none"]

\* the history of the excursion from idle that the invocation extends
PathAfter(prev, cur, idx) ==
    IF prev = 0 THEN <<[cur |-> cur, idx |-> idx]>>
    ELSE IF path = <<>> \/ Len(path) >= MaxPath THEN <<>>
    ELSE Append(path, [cur |-> cur, idx |-> idx])

\* a slip: the handler prints the counter itself
IsrShown_Raw(idx, max) == idx

\* lines 99-100: the value the handler prints for the counter idx
IsrShown(idx, max) == idx % max

\* a slip: the copied counter is returned as it is
IndexOf_NoModulo(index, max) == index

\* lines 141-145 of getIndex(): the value returned for a copied counter
IndexOf(index, max) == index % max

(***************************************************************************)
(* The sketch (led_monger.ino): the strips and the programs.               *)
(***************************************************************************)
nr_strips == 8
nr_progs == 4

\* lines 59-65: the clock and data pin of each strip
led_clk_pins(i) == 52 - 2 * i
led_data_pins(i) == 53 - 2 * i

\* LedProgram::maxBrightness() (LedProgram.h, line 44)
maxBrightness == 2 ^ 10

\* the values analogRead() returns in SpecMain: the ends of the 10-bit range
AnalogReadings == {0, 1023}

\* the speed readings of the ticks of SpecTick: those, the smallest nonzero
\* reading and a mid-range one
TickReadings == {0, 1, 512, 1023}

(***************************************************************************)
(* The patterns (LedProgram.h).  A colour is <<red, green, blue>>, the      *)
(* arguments of strip.Color(); every pattern writes one colour to all the   *)
(* pixels of the buffer, which is therefore held as that colour.            *)
(***************************************************************************)
Color(r, g, b) == <<r, g, b>>

\* LedProgram::maxFrequency() (line 49)
maxFrequency == 2 ^ 10

\* a slip: the pattern does its work for every strip
PatternRuns_Always(strip_nr) == TRUE

\* lines 67-68, 92-93, 148-149, 209-210: if (strip_nr != 0) return;
PatternRuns(strip_nr) == strip_nr = 0

\* a slip: the blink state is set instead of toggled
Toggled_Stuck(on) == TRUE

\* lines 70 and 95: on = !on
Toggled(on) == ~on

\* BlinkerProg, line 72
BlinkerColor(on) == IF on THEN Color(255, 255, 255) ELSE Color(0, 0, 0)

\* RgbBlinkerProg, lines 96-97: rgb after the toggle gave on
RgbAdvanced(rgb, on) ==
    IF on THEN (IF rgb = 2 THEN 0 ELSE rgb + 1) ELSE rgb

\* RgbBlinkerProg, lines 99-115
RgbColor(rgb, on) ==
    IF ~on THEN Color(0, 0, 0)
    ELSE IF rgb = 0 THEN Color(255, 0, 0)
    ELSE IF rgb = 1 THEN Color(0, 255, 0)
    ELSE Color(0, 0, 255)

\* SingleColorProg::wheel, lines 126-137, for the byte p
wheel(p) ==
    LET pos == 255 - p
    IN  IF pos < 85 THEN Color(255 - pos * 3, 0, pos * 3)
        ELSE IF pos < 170
        THEN Color(0, (pos - 85) * 3, 255 - (pos - 85) * 3)
        ELSE Color((pos - 170) * 3, 255 - (pos - 170) * 3, 0)

\* SingleColorProg, line 151: the argument is converted to byte
SingleColor(frequency) ==
    wheel((frequency \div (maxFrequency \div 255)) % 256)

\* lines 12-14: the gamma correction table (index 0 is gc_table[1])
gc_table == <<
    0, 1, 1, 1, 1, 1, 1, 1, 1, 1, 1, 1, 1, 1, 1, 1,
    1, 1, 1, 1, 1, 1, 1, 1, 1, 1, 1, 1, 1, 1, 1, 1,
    1, 1, 1, 1, 1, 1, 1, 1, 1, 1, 1, 1, 1, 1, 1, 1,
    1, 1, 1, 2, 2, 2, 2, 2, 2, 2, 3, 3, 3, 3, 3, 3,
    4, 4, 4, 4, 4, 5, 5, 5, 5, 5, 6, 6, 6, 7, 7, 7,
    7, 8, 8, 8, 9, 9, 9, 10, 10, 10, 11, 11, 11, 12, 12, 13,
    13, 14, 14, 14, 15, 15, 16, 16, 17, 17, 18, 18, 19, 19, 20, 21,
    21, 22, 22, 23, 24, 24, 25, 25, 26, 27, 27, 28, 29, 30, 30, 31,
    32, 33, 33, 34, 35, 36, 37, 37, 38, 39, 40, 41, 42, 43, 44, 44,
    45, 46, 47, 48, 49, 50, 51, 52, 54, 55, 56, 57, 58, 59, 60, 61,
    62, 64, 65, 66, 67, 69, 70, 71, 72, 74, 75, 76, 78, 79, 81, 82,
    83, 85, 86, 88, 89, 91, 92, 94, 95, 97, 98, 100, 102, 103, 105, 107,
    108, 110, 112, 114, 115, 117, 119, 121, 123, 124, 126, 128, 130, 132, 134, 136,
    138, 140, 142, 144, 146, 148, 150, 152, 154, 157, 159, 161, 163, 165, 168, 170,
    172, 175, 177, 179, 182, 184, 187, 189, 192, 194, 197, 199, 202, 204, 207, 209,
    212, 215, 217, 220, 223, 226, 228, 231, 234, 237, 240, 243, 246, 249, 252, 255>>

\* ColorTempProg::clamp, lines 160-167
clamp(x, min, max) == IF x < min THEN min ELSE IF x > max THEN max ELSE x

\* lines 178-194: red, green and blue as the floating-point expressions give
\* them (truncated to int) for temp / 100 = t, evaluated for the t that the
\* modelled speed readings produce
ColorTempChannels(t) ==
    CASE t = 10 -> <<255, 67, 0>>
      [] t = 50 -> <<255, 228, 205>>
      [] t = 91 -> <<208, 222, 255>>

\* ColorTempProg::color_temp_to_rgb, lines 170-201
color_temp_to_rgb(temp) ==
    IF temp > 40000 \/ temp < 1000 THEN Color(0, 255, 0)
    ELSE LET c == ColorTempChannels(temp \div 100)
         IN  Color(gc_table[clamp(c[1], 0, 255) + 1],
                   gc_table[clamp(c[2], 0, 255) + 1],
                   gc_table[clamp(c[3], 0, 255) + 1])

\* ColorTempProg, line 214: the argument is a 16-bit unsigned
ColorTemp(frequency) == color_temp_to_rgb((8 * frequency + 1000) % (2 ^ 16))

\* progs[p]->updateStrip on strip 0: the new pattern fields and the colour
\* written to every pixel
PatternStep(p, on_b, on_r, rgb, frequency) ==
    IF p = 0
    THEN [on_b |-> Toggled(on_b), on_r |-> on_r, rgb |-> rgb,
          color |-> BlinkerColor(Toggled(on_b))]
    ELSE IF p = 1
    THEN [on_b |-> on_b, on_r |-> Toggled(on_r),
          rgb |-> RgbAdvanced(rgb, Toggled(on_r)),
          color |-> RgbColor(RgbAdvanced(rgb, Toggled(on_r)), Toggled(on_r))]
    ELSE IF p = 2
    THEN [on_b |-> on_b, on_r |-> on_r, rgb |-> rgb,
          color |-> SingleColor(frequency)]
    ELSE [on_b |-> on_b, on_r |-> on_r, rgb |-> rgb,
          color |-> ColorTemp(frequency)]

(***************************************************************************)
(* Potentiometer (the sketch file, lines 189-246).                         *)
(***************************************************************************)
LOG_BIN_SIZE_ == 5
ADC_BITS_ == 10
HYSTERESIS_ == 8
ADC_TO_BIN_SHIFT_ == ADC_BITS_ - LOG_BIN_SIZE_
BIN_SIZE_ == 2 ^ LOG_BIN_SIZE_
\* INT_MAX of the 16-bit int of the target
NO_CHANGE == 32767

\* the analog readings update() is given: the ends of the range, the
\* readings of the documented scenario, and readings on both sides of the
\* margins of bins 0, 15, 16 and 31
PotReadings ==
    {0, 39, 40, 471, 472, 497, 500, 503, 511, 519, 520, 560, 983, 984, 1023}

\* line 211: next_value >> ADC_TO_BIN_SHIFT_
BinOf(value) == value \div (2 ^ ADC_TO_BIN_SHIFT_)

\* lines 222-223
BinStart(bin) == bin * (2 ^ ADC_TO_BIN_SHIFT_)
BinEnd(bin) == BinStart(bin) + (BIN_SIZE_ - 1)

\* a slip: the bin changes as soon as the reading leaves it
PotAccepts_NoMargin(bin, value) ==
    \/ value < BinStart(bin)
    \/ value > BinEnd(bin)

\* lines 231, 234: the reading is far enough outside the current bin
PotAccepts(bin, value) ==
    \/ value < BinStart(bin) - HYSTERESIS_
    \/ value > BinEnd(bin) + HYSTERESIS_

\* lines 237-241: control reaches the end of update() without a return
\* statement; the caller reads whatever the return registers hold
FallOffReturns(bin, value) ==
    {NO_CHANGE, 0, bin, BinOf(value), value}

\* update() for the reading value: the new current_bin_ and the values the
\* call can return
PotUpdateResult(bin, value) ==
    IF bin = NO_CHANGE
    THEN [bin |-> BinOf(value), rets |-> {BinOf(value)}]
    ELSE IF BinOf(value) # bin
    THEN IF PotAccepts(bin, value)
         THEN [bin |-> BinOf(value), rets |-> {BinOf(value)}]
         ELSE [bin |-> bin, rets |-> FallOffReturns(bin, value)]
    ELSE [bin |-> bin, rets |-> {NO_CHANGE}]

(***************************************************************************)
(* SpecIsr: one constructed encoder; the handler and getIndex() each run   *)
(* to completion, one after the other.                                     *)
(***************************************************************************)
\* RotaryEncoder rot{...} constructed (lines 107-129) with the pins reading
\* p and max_index m, and no other object
EncConstructed(p, m) ==
    /\ enc_prev_pos_ = [i \in Ids |-> IF i = 1 THEN p ELSE 0]
    /\ max_index_ = [i \in Ids |-> IF i = 1 THEN m ELSE 0]
    /\ enc_flags_ = [i \in Ids |-> {}]
    /\ rotary_index_ = [i \in Ids |-> 0]
    /\ instance_ = 1
    /\ ctor_pc = [i \in Ids |-> IF i = 1 THEN "live" ELSE "none"]
    /\ attached = TRUE
    /\ isr_null = FALSE

\* no handler in progress, nothing printed, nothing observed
QuietInit ==
    /\ interruptsOn = TRUE
    /\ isr_stack = <<>>
    /\ isrCalls = 0
    /\ seg_buf = None
    /\ seg_shown = None
    /\ path = <<>>
    /\ ctr0 = 0
    /\ nCW = 0
    /\ nCCW = 0
    /\ sampled = None
    /\ resampled = FALSE
    /\ gi_index = None
    /\ gi_ret = None
    /\ gi_seen = {}

\* Potentiometer(pin): current_bin_ = NO_CHANGE (line 203)
PotInit ==
    /\ current_bin_ = NO_CHANGE
    /\ pot_log = <<>>

\* the sketch before the first call of loop(): which_prog = 0 (line 107) and
\* the strip on the pins of channel 0 (lines 76-77)
MainInit ==
    /\ pc = "start"
    /\ freq = 0
    /\ brightness = 0
    /\ which_prog = 0
    /\ prog = 0
    /\ strip_i = 0
    /\ strip_pins = <<led_data_pins(0), led_clk_pins(0)>>
    /\ strip_brightness = 0
    /\ tick_log = <<>>
    /\ blinker_on = FALSE
    /\ rgb_blinker_on = FALSE
    /\ rgb_blinker_rgb = 0
    /\ strip_pixels = Color(0, 0, 0)
    /\ shown_log = <<>>
    /\ on_at_start = FALSE
    /\ loop_start = Unset
    /\ interval_millis = Unset
    /\ loop_time = Unset
    /\ sleep_time = Unset
    /\ elapsed = None

InitIsr ==
    /\ \E p \in PinStates, m \in Moduli : EncConstructed(p, m)
    /\ QuietInit
    /\ PotInit
    /\ MainInit

\* pin_isr() from entry to return, sampling the pin state cur, with no other
\* invocation nested in it
PinIsrEffect(cur) ==
    LET e == instance_
        r == IsrBody(enc_prev_pos_[e], enc_flags_[e], rotary_index_[e], cur)
    IN  /\ attached
        /\ e # NULL
        /\ enc_prev_pos_' = [enc_prev_pos_ EXCEPT ![e] = r.prev]
        /\ enc_flags_' = [enc_flags_ EXCEPT ![e] = r.flags]
        /\ rotary_index_' = [rotary_index_ EXCEPT ![e] = r.idx]
        /\ path' = PathAfter(enc_prev_pos_[e], cur, r.idx)
        /\ ctr0' = IF enc_prev_pos_[e] = 0 THEN rotary_index_[e] ELSE ctr0
        /\ nCW' = IF r.step = "cw" THEN nCW + 1 ELSE nCW
        /\ nCCW' = IF r.step = "ccw" THEN nCCW + 1 ELSE nCCW
        /\ sampled' = cur
        /\ resampled' = (cur = enc_prev_pos_[e])
        /\ IF r.change
           THEN /\ seg_buf' = IsrShown(r.idx, max_index_[e])
                /\ seg_shown' = IsrShown(r.idx, max_index_[e])
           ELSE UNCHANGED segVars
        /\ gi_index' = None
        /\ gi_ret' = None
        /\ gi_seen' = {}
        /\ UNCHANGED <<max_index_, ctorVars, interruptsOn, isr_stack, potVars, mainVars>>

\* the accepted steps of a run stay within MaxCW and MaxCCW
StepsBounded ==
    /\ nCW' <= MaxCW
    /\ nCCW' <= MaxCCW

PinIsrRun(cur) ==
    /\ PinIsrEffect(cur)
    /\ StepsBounded
    /\ UNCHANGED isrCalls

\* getIndex() from call to return
GetIndexRun ==
    LET e == instance_
    IN  /\ e # NULL
        /\ gi_index' = rotary_index_[e]
        /\ gi_ret' = IndexOf(rotary_index_[e], max_index_[e])
        /\ gi_seen' = {rotary_index_[e]}
        /\ UNCHANGED <<encVars, ctorVars, intVars, segVars, histVars, potVars, mainVars>>

NextIsr ==
    \/ \E cur \in PinStates : PinIsrRun(cur)
    \/ GetIndexRun

SpecIsr == InitIsr /\ [][NextIsr]_vars

(***************************************************************************)
(* Properties of the decoder (SpecIsr).                                    *)
(***************************************************************************)
\* the sampled pin states, and the counter after each, of the recorded path
PathSamples == [k \in 1..Len(path) |-> path[k].cur]
PathCounters == [k \in 1..Len(path) |-> path[k].idx]

\* the registered encoder's counter
Counter == rotary_index_[instance_]

\* C1: from previousPinState = 00 with no flags set, the samples 01, 11, 10,
\* 00 change the counter by exactly +1 (modulo 256) and the samples 10, 11,
\* 01, 00 by exactly -1, and only the last invocation of the four changes it.
C1_CleanQuarterTurn ==
    /\ PathSamples = <<1, 3, 2, 0>> =>
          PathCounters = <<ctr0, ctr0, ctr0, (ctr0 + 1) % Uint8>>
    /\ PathSamples = <<2, 3, 1, 0>> =>
          PathCounters = <<ctr0, ctr0, ctr0, (ctr0 - 1) % Uint8>>

\* a counter-clockwise turn from zero has been decoded, wrapping to 255
C1_Witness ==
    /\ PathSamples = <<2, 3, 1, 0>>
    /\ ctr0 = 0
    /\ Counter = 255

\* a clockwise turn has been decoded
C1_WitnessCW ==
    /\ PathSamples = <<1, 3, 2, 0>>
    /\ Counter = (ctr0 + 1) % Uint8

\* C2: getIndex() after N accepted clockwise and M accepted counter-clockwise
\* steps from a zero counter returns (N - M) mod max_index_, whatever the
\* modulus.
C2_IndexIsNetStepsModMax ==
    gi_ret # None => gi_ret = (nCW - nCCW) % max_index_[instance_]

\* the excursion left idle, is back at idle, and never sampled 11
PathBouncedBack ==
    /\ Len(path) >= 2
    /\ path[1].cur # 0
    /\ path[Len(path)].cur = 0
    /\ \A k \in 1..Len(path) : path[k].cur # 3

\* the first edge and the closing edge pair up as one direction of rotation
PathEdgesPair ==
    \/ path[1].cur = 1 /\ path[Len(path) - 1].cur = 2
    \/ path[1].cur = 2 /\ path[Len(path) - 1].cur = 1

\* C3: a sequence that leaves 00 and returns to 00 without reaching 11 and
\* without a matching pair of first and closing edge leaves the counter
\* unchanged, at every invocation of the sequence.
C3_BounceRejected ==
    (PathBouncedBack /\ ~PathEdgesPair) =>
        \A k \in 1..Len(path) : path[k].idx = ctr0

\* a bounce 00, 01, 10, 01, 00 has been sampled after an accepted step
C3_Witness ==
    /\ PathSamples = <<1, 2, 1, 0>>
    /\ ctr0 = 1
    /\ Counter = 1

\* the flags that are set when the handler, having sampled 00 from the state
\* prev, tests them: those recorded so far and the closing edge
FlagsAtReturn(prev, flags) ==
    flags \cup (IF prev = 2 THEN {2} ELSE IF prev = 1 THEN {3} ELSE {})

\* C22: after every invocation, whatever the pins read at construction and
\* whatever is sampled: if enc_prev_pos_ is 00 then enc_flags_ is empty, and
\* the first-edge-CW and first-edge-CCW flags are never both set, so that
\* the tests for an increment and for a decrement cannot both hold at a
\* return to idle.
C22_FlagsWellFormed ==
    LET prev == enc_prev_pos_[instance_]
        flags == enc_flags_[instance_]
        f == FlagsAtReturn(prev, flags)
    IN  /\ prev = 0 => flags = {}
        /\ ~(0 \in flags /\ 1 \in flags)
        /\ ~(/\ 0 \in f /\ (2 \in f \/ 4 \in f)
             /\ 1 \in f /\ (3 \in f \/ 4 \in f))

\* an encoder constructed with the pins away from idle has come back to
\* idle, with no first edge seen and no step counted
C22_Witness ==
    /\ sampled = 0
    /\ ~resampled
    /\ enc_prev_pos_[instance_] = 0
    /\ enc_flags_[instance_] = {}
    /\ path = <<>>
    /\ nCW = 0
    /\ nCCW = 0

(***************************************************************************)
(* A run of clean clockwise quarter-turns (SpecTurns).                     *)
(***************************************************************************)
\* the pin states of one clean clockwise quarter-turn, in the order sampled
CleanCW == <<1, 3, 2, 0>>

\* rot{rot_a_pin, rot_b_pin, nr_progs} constructed with the pins idle
InitTurns ==
    /\ EncConstructed(0, nr_progs)
    /\ QuietInit
    /\ PotInit
    /\ MainInit

\* pin_isr() samples the next pin state of the run
TurnSample ==
    /\ isrCalls < Len(CleanCW) * MaxTurns
    /\ PinIsrEffect(CleanCW[(isrCalls % Len(CleanCW)) + 1])
    /\ isrCalls' = isrCalls + 1

NextTurns ==
    \/ TurnSample
    \/ GetIndexRun

SpecTurns == InitTurns /\ [][NextTurns]_vars

\* the quarter-turns completed so far
TurnsDone == isrCalls \div Len(CleanCW)

\* C12: with modulus 4 and the counter starting at 0, getIndex() after k
\* consecutive clean clockwise quarter-turns returns k mod 4, for every k,
\* also past the wrap of the 8-bit counter at 256.
C12_IndexAfterTurns ==
    gi_ret # None => gi_ret = TurnsDone % 4

\* getIndex() has returned 0 after 256 quarter-turns, the counter having
\* wrapped
C12_Witness ==
    /\ TurnsDone = Uint8
    /\ nCW = Uint8
    /\ Counter = 0
    /\ gi_ret = 0

\* C14: an invocation changes the counter only when the pin state returns to
\* 00 from another state; it then adds 1 (modulo 256) iff the first-edge-CW
\* flag and the closing-edge-CW or mid-step flag are set, subtracts 1 iff
\* that does not hold and the first-edge-CCW flag and the closing-edge-CCW or
\* mid-step flag are set, and leaves it alone otherwise; the flags are empty
\* after every such return.
C14_CounterChangesOnlyAtReturn ==
    [][LET prev == enc_prev_pos_[instance_]
           f == FlagsAtReturn(prev, enc_flags_[instance_])
           returned == prev # 0 /\ enc_prev_pos_'[instance_] = 0
           cw == 0 \in f /\ (2 \in f \/ 4 \in f)
           ccw == 1 \in f /\ (3 \in f \/ 4 \in f)
       IN  /\ rotary_index_'[instance_] # Counter => returned
           /\ returned =>
                 /\ rotary_index_'[instance_] =
                       IF cw THEN (Counter + 1) % Uint8
                       ELSE IF ccw THEN (Counter - 1) % Uint8
                       ELSE Counter
                 /\ enc_flags_'[instance_] = {}]_vars

\* a step has been accepted on the middle state, the closing edge missing,
\* in each direction
C14_Witness ==
    /\ PathSamples = <<2, 3, 0>>
    /\ Counter = (ctr0 - 1) % Uint8
    /\ nCW > 0
    /\ enc_flags_[instance_] = {}

\* C15: a sequence that leaves idle and comes back through the single-pin
\* state it left by, 00, 01, 11, 01, 00 or 00, 10, 11, 10, 00, is rejected:
\* the counter is unchanged at every invocation of the sequence.
C15_ReversedTurnRejected ==
    PathSamples \in {<<1, 3, 1, 0>>, <<2, 3, 2, 0>>} =>
        \A k \in 1..Len(path) : path[k].idx = ctr0

(***************************************************************************)
(* SpecPot: one Potentiometer, update() called with successive readings.   *)
(***************************************************************************)
InitPot ==
    /\ EncConstructed(0, 4)
    /\ QuietInit
    /\ PotInit
    /\ MainInit

\* int update() (lines 208-241) with analogRead(pin_) = value
PotUpdate(value) ==
    LET r == PotUpdateResult(current_bin_, value)
    IN  /\ Len(pot_log) < MaxPotCalls
        /\ current_bin_' = r.bin
        /\ \E ret \in r.rets :
              pot_log' = Append(pot_log, [value |-> value,
                                          before |-> current_bin_,
                                          after |-> r.bin,
                                          ret |-> ret])
        /\ UNCHANGED <<encVars, ctorVars, intVars, segVars, histVars, giVars,
                       mainVars>>

NextPot == \E value \in PotReadings : PotUpdate(value)

SpecPot == InitPot /\ [][NextPot]_vars

(***************************************************************************)
(* Properties of the potentiometer reader (SpecPot).                       *)
(***************************************************************************)
PotValues == [k \in 1..Len(pot_log) |-> pot_log[k].value]
PotReports == [k \in 1..Len(pot_log) |-> pot_log[k].ret]

\* the reading lies in the band of bin: the bin widened by the margin
InBand(bin, value) ==
    /\ value >= BinStart(bin) - HYSTERESIS_
    /\ value <= BinEnd(bin) + HYSTERESIS_

\* C5: every call of update() reports the new current bin (on the first call,
\* where it is reading >> 5, and on an accepted change) or NO_CHANGE, and
\* NO_CHANGE in particular for a reading of another bin inside the band; the
\* readings 500, 503, 497, 560 report 15, NO_CHANGE, NO_CHANGE, 17.
C5_ReportIsBinOrNoChange ==
    /\ \A k \in 1..Len(pot_log) :
          LET c == pot_log[k]
          IN  /\ c.before = NO_CHANGE =>
                    c.after = c.value \div 32 /\ c.ret = c.after
              /\ (c.before # NO_CHANGE /\ c.after # c.before) =>
                    c.ret = c.after
              /\ (c.before # NO_CHANGE /\ c.after = c.before) =>
                    c.ret = NO_CHANGE
    /\ PotValues = <<500, 503, 497, 560>> =>
          PotReports = <<15, NO_CHANGE, NO_CHANGE, 17>>

\* C6: after initialization current_bin_ changes in an update only if the
\* reading is below binStart - margin or above binEnd + margin, so readings
\* that stay in the band of the current bin never change it.
C6_BinChangesOnlyOutsideBand ==
    \A k \in 1..Len(pot_log) :
        LET c == pot_log[k]
        IN  (c.before # NO_CHANGE /\ InBand(c.before, c.value)) =>
                c.after = c.before

\* a reading of the next bin, inside the band, left the current bin alone
C6_Witness ==
    \E k \in 1..Len(pot_log) :
        /\ pot_log[k].before = 15
        /\ pot_log[k].value = 519
        /\ pot_log[k].after = 15

\* C7: after initialization a reading at least margin + 1 past the boundary
\* of the current bin reports one change, to the bin of the reading, which
\* becomes the current bin and holds the reading; the next reading, if it is
\* inside the band of the new bin, reports NO_CHANGE.
C7_ChangeOnceThenSticky ==
    \A k \in 1..Len(pot_log) :
        LET c == pot_log[k]
        IN  (/\ c.before # NO_CHANGE
             /\ \/ c.value >= BinEnd(c.before) + HYSTERESIS_ + 1
                \/ c.value <= BinStart(c.before) - HYSTERESIS_ - 1) =>
                /\ c.ret = c.value \div 32
                /\ c.after = c.ret
                /\ BinStart(c.after) <= c.value /\ c.value <= BinEnd(c.after)
                /\ (k < Len(pot_log) /\ InBand(c.after, pot_log[k + 1].value)) =>
                      /\ pot_log[k + 1].ret = NO_CHANGE
                      /\ pot_log[k + 1].after = c.after

(***************************************************************************)
(* SpecCtor: RotaryEncoder objects are constructed one after the other,    *)
(* with pin-change interrupts delivered in between.                        *)
(***************************************************************************)
InitCtor ==
    /\ enc_prev_pos_ = [i \in Ids |-> 0]
    /\ max_index_ = [i \in Ids |-> 0]
    /\ enc_flags_ = [i \in Ids |-> {}]
    /\ rotary_index_ = [i \in Ids |-> 0]
    /\ instance_ = NULL
    /\ ctor_pc = [i \in Ids |-> "none"]
    /\ attached = FALSE
    /\ isr_null = FALSE
    /\ QuietInit
    /\ PotInit
    /\ MainInit

\* no constructor is between its first and its last statement
NoCtorRunning == \A i \in Ids : ctor_pc[i] \in {"none", "live"}

\* lines 107-122: the member initializers and the initial read of the pins,
\* which read p
CtorBegin(id, p, m) ==
    /\ NoCtorRunning
    /\ ctor_pc[id] = "none"
    /\ \A i \in Ids : i < id => ctor_pc[i] = "live"
    /\ enc_prev_pos_' = [enc_prev_pos_ EXCEPT ![id] = p]
    /\ enc_flags_' = [enc_flags_ EXCEPT ![id] = {}]
    /\ rotary_index_' = [rotary_index_ EXCEPT ![id] = 0]
    /\ max_index_' = [max_index_ EXCEPT ![id] = m]
    /\ ctor_pc' = [ctor_pc EXCEPT ![id] = "attach"]
    /\ UNCHANGED <<instance_, attached, isr_null, intVars, segVars, histVars,
                   giVars, potVars, mainVars>>

\* lines 124-125: attachInterrupt on both pins
CtorAttach(id) ==
    /\ ctor_pc[id] = "attach"
    /\ attached' = TRUE
    /\ ctor_pc' = [ctor_pc EXCEPT ![id] = "register"]
    /\ UNCHANGED <<encVars, instance_, isr_null, intVars, segVars, histVars,
                   giVars, potVars, mainVars>>

\* the value of instance_ after lines 127-128 run for the object id
Registered(inst, id) == IF inst = NULL THEN id ELSE inst

\* lines 127-128: if (!instance_) instance_ = this; the constructor returns
CtorRegister(id) ==
    /\ ctor_pc[id] = "register"
    /\ instance_' = Registered(instance_, id)
    /\ ctor_pc' = [ctor_pc EXCEPT ![id] = "live"]
    /\ UNCHANGED <<encVars, attached, isr_null, intVars, segVars, histVars,
                   giVars, potVars, mainVars>>

\* a pin-change interrupt while an object is registered
CtorPinIsr(cur) ==
    /\ isrCalls < MaxIsrCalls
    /\ interruptsOn
    /\ PinIsrEffect(cur)
    /\ StepsBounded
    /\ isrCalls' = isrCalls + 1

\* a pin-change interrupt between attachInterrupt and the store to
\* instance_, which the constructor runs with interrupts as it found them
\* (here enabled): line 33 reads NULL and lines 42-45 read through it
CtorPinIsrNull ==
    /\ isrCalls < MaxIsrCalls
    /\ interruptsOn
    /\ attached
    /\ instance_ = NULL
    /\ isr_null' = TRUE
    /\ isrCalls' = isrCalls + 1
    /\ UNCHANGED <<encVars, instance_, ctor_pc, attached, interruptsOn,
                   isr_stack, segVars, histVars, giVars, potVars, mainVars>>

NextCtor ==
    \/ \E id \in Ids, p \in PinStates, m \in Moduli : CtorBegin(id, p, m)
    \/ \E id \in Ids : CtorAttach(id)
    \/ \E id \in Ids : CtorRegister(id)
    \/ \E cur \in PinStates : CtorPinIsr(cur)
    \/ CtorPinIsrNull

SpecCtor == InitCtor /\ [][NextCtor]_vars

(***************************************************************************)
(* Properties of construction (SpecCtor).                                  *)
(***************************************************************************)
LiveEncoders == {i \in Ids : ctor_pc[i] = "live"}

\* C4: constructing a second RotaryEncoder while one is live fails; it is
\* never accepted with the first kept as the registered one, so at most one
\* live decoder exists.
C4_SecondConstructionFails ==
    Cardinality(LiveEncoders) <= 1

\* C21: pin_isr never runs while instance_ is NULL: no pin interrupt is
\* delivered between the attachInterrupt calls of the constructor and its
\* store to instance_.
C21_HandlerNeverSeesNull ==
    ~isr_null

(***************************************************************************)
(* SpecMain: loop() runs tick after tick in the main context, and pin      *)
(* change interrupts run pin_isr on top of it, statement by statement,     *)
(* wherever interrupts are enabled.  An invocation of pin_isr is a frame   *)
(* on isr_stack; only the topmost frame, or the main context when there is *)
(* none, executes.                                                         *)
(***************************************************************************)
InitMain ==
    /\ \E p \in PinStates : EncConstructed(p, nr_progs)
    /\ QuietInit
    /\ PotInit
    /\ MainInit

\* the interrupt enable flag after noInterrupts() and after interrupts()
\* a slip: noInterrupts() left out
NoInterruptsFlag_Forgotten == interruptsOn

NoInterruptsFlag == FALSE
InterruptsFlag == TRUE

Top == isr_stack[Len(isr_stack)]
SetTop(label) == [isr_stack EXCEPT ![Len(isr_stack)] = label]
Pop == SubSeq(isr_stack, 1, Len(isr_stack) - 1)

\* the positions of loop() inside getIndex(), after the call began
GetIndexPcs == {"gi_copy", "gi_sei", "gi_ret"}

\* pin_isr is entered (the hardware clears the interrupt enable flag) and
\* runs lines 33-98: it samples cur, decodes it and, on a recognized step,
\* calls interrupts()
IsrEnter(cur) ==
    LET e == instance_
        r == IsrBody(enc_prev_pos_[e], enc_flags_[e], rotary_index_[e], cur)
    IN  /\ attached
        /\ e # NULL
        /\ interruptsOn
        /\ Len(isr_stack) < MaxNest
        /\ isrCalls < MaxIsrCalls
        /\ isrCalls' = isrCalls + 1
        /\ enc_prev_pos_' = [enc_prev_pos_ EXCEPT ![e] = r.prev]
        /\ enc_flags_' = [enc_flags_ EXCEPT ![e] = r.flags]
        /\ rotary_index_' = [rotary_index_ EXCEPT ![e] = r.idx]
        /\ IF r.change
           THEN /\ isr_stack' = Append(isr_stack, "print")
                /\ interruptsOn' = InterruptsFlag
           ELSE /\ isr_stack' = Append(isr_stack, "ret")
                /\ interruptsOn' = FALSE
        /\ gi_seen' = IF pc \in GetIndexPcs THEN gi_seen \cup {r.idx}
                      ELSE gi_seen
        /\ sampled' = cur
        /\ resampled' = (cur = enc_prev_pos_[e])
        /\ UNCHANGED <<max_index_, ctorVars, segVars, path, ctr0, nCW, nCCW,
                       gi_index, gi_ret, potVars, mainVars>>

\* lines 99-100: seven_seg_.print(rotary_index_ % max_index_, DEC)
IsrPrint ==
    /\ isr_stack # <<>>
    /\ Top = "print"
    /\ seg_buf' = IsrShown(rotary_index_[instance_], max_index_[instance_])
    /\ isr_stack' = SetTop("write")
    /\ UNCHANGED <<encVars, ctorVars, interruptsOn, isrCalls, seg_shown,
                   histVars, giVars, potVars, mainVars>>

\* line 101: seven_seg_.writeDisplay()
IsrWrite ==
    /\ isr_stack # <<>>
    /\ Top = "write"
    /\ seg_shown' = seg_buf
    /\ isr_stack' = SetTop("cli")
    /\ UNCHANGED <<encVars, ctorVars, interruptsOn, isrCalls, seg_buf,
                   histVars, giVars, potVars, mainVars>>

\* line 102: noInterrupts()
IsrDisable ==
    /\ isr_stack # <<>>
    /\ Top = "cli"
    /\ interruptsOn' = NoInterruptsFlag
    /\ isr_stack' = SetTop("ret")
    /\ UNCHANGED <<encVars, ctorVars, isrCalls, segVars, histVars, giVars,
                   potVars, mainVars>>

\* line 104: pin_isr returns; the return from interrupt sets the interrupt
\* enable flag
IsrReturn ==
    /\ isr_stack # <<>>
    /\ Top = "ret"
    /\ isr_stack' = Pop
    /\ interruptsOn' = TRUE
    /\ UNCHANGED <<encVars, ctorVars, isrCalls, segVars, histVars, giVars,
                   potVars, mainVars>>

\* one more call in the history of the tick
Logged(op, arg) == Append(tick_log, [op |-> op, i |-> strip_i, arg |-> arg])

\* log(x), line 127, in millionths (truncated), for the nonzero speed
\* readings of the model
LogMicro(x) ==
    CASE x = 1 -> 0
      [] x = 512 -> 6238324
      [] x = 1023 -> 6930494

\* line 127: the divisor freq != 0 ? log(freq) : 1, in millionths
IntervalDivisor(f) == IF f # 0 THEN LogMicro(f) ELSE 1000000

\* what an unsigned long can hold after the conversion of the infinity that
\* a floating-point division by zero gives: the conversion is undefined
UndefinedIntervals == {ToU32(0), MaxU32}

\* line 127: the values interval_millis can get for the speed reading f,
\* 1000UL / divisor truncated to unsigned long
IntervalValues(f) ==
    IF IntervalDivisor(f) = 0 THEN UndefinedIntervals
    ELSE {ToU32((1000 * 1000000) \div IntervalDivisor(f))}

\* lines 121-127: the tick begins with millis() = t and reads the speed f
\* and the brightness b from the two potentiometers
LoopStart(t, f, b) ==
    /\ isr_stack = <<>>
    /\ pc = "start"
    /\ loop_start' = t
    /\ freq' = f
    /\ brightness' = b
    /\ interval_millis' \in IntervalValues(f)
    /\ loop_time' = Unset
    /\ sleep_time' = Unset
    /\ elapsed' = None
    /\ tick_log' = <<>>
    /\ shown_log' = <<>>
    /\ on_at_start' = blinker_on
    /\ pc' = "gi_cli"
    /\ UNCHANGED <<encVars, ctorVars, intVars, segVars, histVars, giVars,
                   potVars, which_prog, prog, strip_i, strip_pins,
                   strip_brightness, blinker_on, rgb_blinker_on,
                   rgb_blinker_rgb, strip_pixels>>

\* line 129 of the sketch reads the encoder (it names the method getPos; the
\* class defines getIndex()); line 142: noInterrupts()
GetIndexDisable ==
    /\ isr_stack = <<>>
    /\ pc = "gi_cli"
    /\ interruptsOn' = NoInterruptsFlag
    /\ gi_index' = None
    /\ gi_ret' = None
    /\ gi_seen' = {rotary_index_[instance_]}
    /\ pc' = "gi_copy"
    /\ UNCHANGED <<encVars, ctorVars, isr_stack, isrCalls, segVars, histVars,
                   potVars, progVars, paceVars, freq, brightness, which_prog, prog, strip_i,
                   strip_pins, strip_brightness, tick_log>>

\* line 143: index = rotary_index_
GetIndexCopy ==
    /\ isr_stack = <<>>
    /\ pc = "gi_copy"
    /\ gi_index' = rotary_index_[instance_]
    /\ pc' = "gi_sei"
    /\ UNCHANGED <<encVars, ctorVars, intVars, segVars, histVars, gi_ret,
                   gi_seen, potVars, progVars, paceVars, freq, brightness, which_prog, prog,
                   strip_i, strip_pins, strip_brightness, tick_log>>

\* line 144: interrupts()
GetIndexEnable ==
    /\ isr_stack = <<>>
    /\ pc = "gi_sei"
    /\ interruptsOn' = InterruptsFlag
    /\ pc' = "gi_ret"
    /\ UNCHANGED <<encVars, ctorVars, isr_stack, isrCalls, segVars, histVars,
                   giVars, potVars, progVars, paceVars, freq, brightness, which_prog, prog,
                   strip_i, strip_pins, strip_brightness, tick_log>>

\* line 145: return index % max_index_, assigned to which_prog (line 129)
GetIndexReturn ==
    /\ isr_stack = <<>>
    /\ pc = "gi_ret"
    /\ gi_ret' = IndexOf(gi_index, max_index_[instance_])
    /\ which_prog' = gi_ret'
    /\ pc' = "println"
    /\ UNCHANGED <<encVars, ctorVars, intVars, segVars, histVars, gi_index,
                   gi_seen, potVars, progVars, paceVars, freq, brightness, prog, strip_i,
                   strip_pins, strip_brightness, tick_log>>

\* line 138: seven_seg.println(which_prog, DEC)
MainPrint ==
    /\ isr_stack = <<>>
    /\ pc = "println"
    /\ seg_buf' = which_prog
    /\ pc' = "write"
    /\ UNCHANGED <<encVars, ctorVars, intVars, seg_shown, histVars, giVars,
                   potVars, progVars, paceVars, freq, brightness, which_prog, prog, strip_i,
                   strip_pins, strip_brightness, tick_log>>

\* line 139: seven_seg.writeDisplay()
MainWrite ==
    /\ isr_stack = <<>>
    /\ pc = "write"
    /\ seg_shown' = seg_buf
    /\ pc' = "select"
    /\ UNCHANGED <<encVars, ctorVars, intVars, seg_buf, histVars, giVars,
                   potVars, progVars, paceVars, freq, brightness, which_prog, prog, strip_i,
                   strip_pins, strip_brightness, tick_log>>

\* a slip: the loop runs one channel too far
ChannelsLeft_OffByOne(i) == i <= nr_strips

\* line 143: the loop condition i < nr_strips
ChannelsLeft(i) == i < nr_strips

\* a slip: the loop steps over every other channel
NextChannel_Skip(i) == i + 2

\* line 143: ++i
NextChannel(i) == i + 1

\* lines 141-143: prog = progs[which_prog]; i = 0
SelectProg ==
    /\ isr_stack = <<>>
    /\ pc = "select"
    /\ prog' = which_prog
    /\ strip_i' = 0
    /\ pc' = IF ChannelsLeft(0) THEN "pins" ELSE "pace"
    /\ UNCHANGED <<encVars, ctorVars, intVars, segVars, histVars, giVars,
                   potVars, progVars, paceVars, freq, brightness, which_prog, strip_pins,
                   strip_brightness, tick_log>>

\* lines 145-148: strip.updatePins() selects the pins the strip was
\* constructed with (those of channel 0), updatePins(data, clock) the given
\* ones
UpdatePins ==
    /\ isr_stack = <<>>
    /\ pc = "pins"
    /\ strip_pins' = IF strip_i = 0
                     THEN <<led_data_pins(0), led_clk_pins(0)>>
                     ELSE <<led_data_pins(strip_i), led_clk_pins(strip_i)>>
    /\ tick_log' = Logged("pins", strip_pins')
    /\ pc' = "update"
    /\ UNCHANGED <<encVars, ctorVars, intVars, segVars, histVars, giVars,
                   potVars, progVars, paceVars, freq, brightness, which_prog, prog, strip_i,
                   strip_brightness>>

\* line 150: prog->updateStrip(strip, i, brightness, freq)
UpdateStrip ==
    LET r == PatternStep(prog, blinker_on, rgb_blinker_on, rgb_blinker_rgb,
                         freq)
    IN  /\ isr_stack = <<>>
        /\ pc = "update"
        /\ IF PatternRuns(strip_i)
           THEN /\ blinker_on' = r.on_b
                /\ rgb_blinker_on' = r.on_r
                /\ rgb_blinker_rgb' = r.rgb
                /\ strip_pixels' = r.color
           ELSE UNCHANGED <<blinker_on, rgb_blinker_on, rgb_blinker_rgb,
                            strip_pixels>>
        /\ tick_log' = Logged("update", <<prog, brightness, freq>>)
        /\ pc' = "bright"
        /\ UNCHANGED <<encVars, ctorVars, intVars, segVars, histVars, giVars,
                       potVars, paceVars, freq, brightness, which_prog, prog,
                       strip_i, strip_pins, strip_brightness, shown_log,
                       on_at_start>>

\* line 154: strip.setBrightness(brightness/(prog->maxBrightness()/255))
SetBrightness ==
    /\ isr_stack = <<>>
    /\ pc = "bright"
    /\ strip_brightness' = brightness \div (maxBrightness \div 255)
    /\ tick_log' = Logged("bright", <<strip_brightness'>>)
    /\ pc' = "show"
    /\ UNCHANGED <<encVars, ctorVars, intVars, segVars, histVars, giVars,
                   potVars, progVars, paceVars, freq, brightness, which_prog, prog, strip_i,
                   strip_pins>>

\* line 157: strip.show() sends the buffer out on the strip's pins; then the
\* loop header, line 143
Show ==
    /\ isr_stack = <<>>
    /\ pc = "show"
    /\ tick_log' = Logged("show", strip_pins)
    /\ shown_log' = Append(shown_log,
                           [i |-> strip_i, pins |-> strip_pins,
                            pixels |-> strip_pixels,
                            brightness |-> strip_brightness])
    /\ strip_i' = NextChannel(strip_i)
    /\ pc' = IF ChannelsLeft(strip_i') THEN "pins" ELSE "pace"
    /\ UNCHANGED <<encVars, ctorVars, intVars, segVars, histVars, giVars,
                   potVars, paceVars, freq, brightness, which_prog, prog,
                   strip_pins, strip_brightness, blinker_on, rgb_blinker_on,
                   rgb_blinker_rgb, strip_pixels, on_at_start>>

\* a slip: the sleep is computed without the test of line 173
SleepNeeded_Always(time, interval) == TRUE

\* line 173: loop_time < interval_millis
SleepNeeded(time, interval) == Less32(time, interval)

\* lines 168-179: the tick ends d milliseconds after it began: millis() has
\* advanced by d (wrapping as an unsigned long), loop_time is its difference
\* to loop_start, and delay() is called with what is left of the interval
Pace(d) ==
    LET now == Add32(loop_start, ToU32(d))
        time == Sub32(now, loop_start)
    IN  /\ isr_stack = <<>>
        /\ pc = "pace"
        /\ elapsed' = d
        /\ loop_time' = time
        /\ sleep_time' = IF SleepNeeded(time, interval_millis)
                         THEN Sub32(interval_millis, time)
                         ELSE Unset
        /\ pc' = "start"
        /\ UNCHANGED <<encVars, ctorVars, intVars, segVars, histVars, giVars,
                       potVars, progVars, loop_start, interval_millis, freq,
                       brightness, which_prog, prog, strip_i, strip_pins,
                       strip_brightness, tick_log>>

\* SpecMain explores the interleavings of the handler with the tick; the
\* clock stands at one value and the tick takes one duration
MainMillis == {ToU32(0)}
MainDurations == {0}

NextMain ==
    \/ \E cur \in PinStates : IsrEnter(cur)
    \/ IsrPrint
    \/ IsrWrite
    \/ IsrDisable
    \/ IsrReturn
    \/ \E t \in MainMillis, f \in AnalogReadings, b \in AnalogReadings :
          LoopStart(t, f, b)
    \/ GetIndexDisable
    \/ GetIndexCopy
    \/ GetIndexEnable
    \/ GetIndexReturn
    \/ MainPrint
    \/ MainWrite
    \/ SelectProg
    \/ UpdatePins
    \/ UpdateStrip
    \/ SetBrightness
    \/ Show
    \/ \E d \in MainDurations : Pace(d)

SpecMain == InitMain /\ [][NextMain]_vars

\* the processor executes: a handler that was entered runs on to its return,
\* and loop() is called again and again; when the pins change is up to the
\* environment
CpuStep ==
    \/ IsrPrint
    \/ IsrWrite
    \/ IsrDisable
    \/ IsrReturn
    \/ \E t \in MainMillis, f \in AnalogReadings, b \in AnalogReadings :
          LoopStart(t, f, b)
    \/ GetIndexDisable
    \/ GetIndexCopy
    \/ GetIndexEnable
    \/ GetIndexReturn
    \/ MainPrint
    \/ MainWrite
    \/ SelectProg
    \/ UpdatePins
    \/ UpdateStrip
    \/ SetBrightness
    \/ Show
    \/ \E d \in MainDurations : Pace(d)

SpecMainFair == SpecMain /\ WF_vars(CpuStep)

(***************************************************************************)
(* The ticks of loop() one after the other, the knob being turned between   *)
(* them (SpecTick).                                                         *)
(***************************************************************************)
\* millis() when a tick begins: early, and 100 ms before the clock wraps
StartMillis == {ToU32(0), Sub32(ToU32(0), ToU32(100))}

\* the milliseconds a tick takes up to line 168
Durations == {0, 144, 150, 1000, 2000}

\* between two ticks pin_isr() samples the next pin state of a clean
\* clockwise quarter-turn
TickTurn ==
    /\ pc = "start"
    /\ isr_stack = <<>>
    /\ isrCalls < Len(CleanCW) * MaxTickTurns
    /\ PinIsrEffect(CleanCW[(isrCalls % Len(CleanCW)) + 1])
    /\ isrCalls' = isrCalls + 1

NextTick ==
    \/ TickTurn
    \/ \E t \in StartMillis, f \in TickReadings, b \in AnalogReadings :
          LoopStart(t, f, b)
    \/ GetIndexDisable
    \/ GetIndexCopy
    \/ GetIndexEnable
    \/ GetIndexReturn
    \/ MainPrint
    \/ MainWrite
    \/ SelectProg
    \/ UpdatePins
    \/ UpdateStrip
    \/ SetBrightness
    \/ Show
    \/ \E d \in Durations : Pace(d)

SpecTick == InitTurns /\ [][NextTick]_vars

(***************************************************************************)
(* Properties of the interleaving of pin_isr and loop() (SpecMain).        *)
(***************************************************************************)
\* the positions of loop() between noInterrupts() and interrupts() of
\* getIndex()
GetIndexWindow == {"gi_copy", "gi_sei"}

\* C8: under any interleaving of the handler with a getIndex() call of the
\* main context, interrupts are disabled exactly between the noInterrupts()
\* and the interrupts() around the copy of the counter, no handler runs in
\* that window, the modulo is taken with interrupts enabled again, and the
\* value returned is (a value the counter had during the call) mod
\* max_index_.
C8_SnapshotCriticalSection ==
    /\ isr_stack = <<>> => (interruptsOn <=> pc \notin GetIndexWindow)
    /\ pc \in GetIndexWindow => isr_stack = <<>>
    /\ gi_ret # None =>
          \E v \in gi_seen : gi_ret = v % max_index_[instance_]

\* getIndex() returned the value copied before a handler changed the counter
\* during the call
C8_Witness ==
    /\ pc = "println"
    /\ gi_ret = 0
    /\ gi_seen = {0, 1}
    /\ rotary_index_[instance_] = 1

\* the positions of pin_isr in its display notification: interrupts() done,
\* writeDisplay() not yet done
DisplayFrames == {"print", "write"}

\* C9: while the handler's display notification (print, then writeDisplay)
\* is in progress no other invocation of the handler begins, and the
\* notification is not interleaved with the main loop's println and
\* writeDisplay.
C9_DisplayWriteUninterrupted ==
    /\ \A k \in 1..(Len(isr_stack) - 1) : isr_stack[k] \notin DisplayFrames
    /\ pc = "write" => \A k \in 1..Len(isr_stack) :
                           isr_stack[k] \notin DisplayFrames

\* the first half of C9 alone: the handler is not re-entered during its
\* display notification
C9_NoReentry ==
    \A k \in 1..(Len(isr_stack) - 1) : isr_stack[k] \notin DisplayFrames

\* the second half of C9 alone: no notification of the handler between the
\* main loop's println and writeDisplay
C9_NoInterleavedWrite ==
    pc = "write" => \A k \in 1..Len(isr_stack) :
                        isr_stack[k] \notin DisplayFrames

\* the calls of one channel, in the order loop() makes them
ChannelOps == <<"pins", "update", "bright", "show">>

\* C10: in every tick the pattern's updateStrip is called once for each
\* channel 0 .. nr_strips - 1 in ascending order, each channel is shown on
\* its own pins after its update and its brightness scaling and before the
\* next channel's update, and no channel index >= nr_strips is used.
C10_ChannelsAscending ==
    /\ \A k \in 1..Len(tick_log) :
          /\ tick_log[k].op = ChannelOps[((k - 1) % 4) + 1]
          /\ tick_log[k].i = (k - 1) \div 4
          /\ tick_log[k].i < nr_strips
          /\ tick_log[k].op = "show" =>
                tick_log[k].arg = <<led_data_pins(tick_log[k].i),
                                    led_clk_pins(tick_log[k].i)>>
    /\ pc = "pace" => Len(tick_log) = 4 * nr_strips

\* a tick has shown the last channel, with a handler having run in the tick
C10_Witness ==
    /\ pc = "pace"
    /\ Len(tick_log) = 4 * nr_strips
    /\ tick_log[4 * nr_strips].op = "show"
    /\ tick_log[4 * nr_strips].i = nr_strips - 1
    /\ rotary_index_[instance_] # which_prog

\* the updateStrip calls of the tick so far
TickUpdates == SelectSeq(tick_log, LAMBDA ev : ev.op = "update")

\* C11: in every tick, under any interleaving of the handler, the pattern
\* index the main loop resolves is one snapshot in 0 .. nr_progs - 1, and
\* that pattern and the tick's brightness and speed readings are what every
\* channel update of the tick is called with, also when the rotary counter
\* changes during the tick.
C11_OnePatternPerTick ==
    /\ which_prog \in 0..(nr_progs - 1)
    /\ \A k \in 1..Len(TickUpdates) :
          /\ TickUpdates[k].arg[1] = gi_ret
          /\ TickUpdates[k].arg[1] \in 0..(nr_progs - 1)
          /\ TickUpdates[k].arg = TickUpdates[1].arg
          /\ TickUpdates[k].arg = <<prog, brightness, freq>>

\* all channels of a tick were updated with pattern 0 although the counter
\* went to 1 after the snapshot was taken
C11_Witness ==
    /\ Len(TickUpdates) = nr_strips
    /\ TickUpdates[nr_strips].arg[1] = 0
    /\ gi_seen = {0}
    /\ rotary_index_[instance_] = 1

\* C16: an invocation that samples the pin state it recorded last leaves the
\* flags and the counter unchanged and makes no display notification; after
\* every invocation enc_prev_pos_ is the sampled state.
C16_SameSampleChangesNothing ==
    [][isrCalls' # isrCalls =>
          /\ enc_prev_pos_'[instance_] = sampled'
          /\ sampled' = enc_prev_pos_[instance_] =>
                /\ enc_flags_' = enc_flags_
                /\ rotary_index_' = rotary_index_
                /\ seg_buf' = seg_buf
                /\ seg_shown' = seg_shown
                /\ isr_stack' = Append(isr_stack, "ret")]_vars

\* the handler sampled 01 for the second time in a row, the first-edge flag
\* still set, and is about to return without a notification
C16_Witness ==
    /\ resampled
    /\ sampled = 1
    /\ enc_flags_[instance_] = {0}
    /\ isr_stack = <<"ret">>

\* C20: every value written to the display, by the main loop or by the
\* handler, is in 0 .. nr_progs - 1; and if the rotary counter stops changing
\* then, the main loop going on, the display eventually shows the counter
\* mod nr_progs and keeps showing it.
C20_DisplayFollowsPosition ==
    /\ [](/\ seg_buf # None => seg_buf \in 0..(nr_progs - 1)
          /\ seg_shown # None => seg_shown \in 0..(nr_progs - 1))
    /\ <>[][rotary_index_' = rotary_index_]_vars =>
          <>[](seg_shown = Counter % nr_progs)

\* the main loop has just written the snapshot 0 over the 1 that the handler
\* displayed for the step it decoded in between
C20_Witness ==
    /\ isr_stack = <<>>
    /\ pc = "select"
    /\ which_prog = 0
    /\ seg_shown = 0
    /\ Counter = 1

(***************************************************************************)
(* Properties of the ticks (SpecTick).                                     *)
(***************************************************************************)
\* C13: every shipped pattern works for channel 0 only, and in every tick
\* the pixel data sent for each channel 1 .. nr_strips - 1 is the data sent
\* for channel 0, which is what the pattern renders from the tick's inputs:
\* nothing between the channel updates alters the one buffer.
C13_ChannelsShowChannelZero ==
    /\ \A k \in 1..Len(shown_log) :
          /\ shown_log[k].i = k - 1
          /\ shown_log[k].pixels = shown_log[1].pixels
          /\ shown_log[k].brightness = shown_log[1].brightness
    /\ shown_log # <<>> =>
          /\ prog = 0 =>
                shown_log[1].pixels \in {<<255, 255, 255>>, <<0, 0, 0>>}
          /\ prog = 1 =>
                shown_log[1].pixels \in
                    {<<255, 0, 0>>, <<0, 255, 0>>, <<0, 0, 255>>, <<0, 0, 0>>}
          /\ prog = 2 => shown_log[1].pixels = SingleColor(freq)
          /\ prog = 3 => shown_log[1].pixels = ColorTemp(freq)

\* all channels of a tick of single_color have been sent with the colour of
\* the speed reading 512 at full brightness, after a tick of rgb_blinker
C13_Witness ==
    /\ pc = "pace"
    /\ prog = 2
    /\ freq = 512
    /\ rgb_blinker_on
    /\ Len(shown_log) = nr_strips
    /\ shown_log[nr_strips].pixels = <<0, 126, 129>>
    /\ shown_log[nr_strips].brightness = 255

\* C17: for every speed reading the divisor of the interval computation (1
\* for the reading 0, log(reading) otherwise) is nonzero, so that the
\* interval is a defined finite value.
C17_DivisorNonzero ==
    loop_start # Unset => IntervalDivisor(freq) # 0

\* C18: at the end of every tick the main loop sleeps for exactly interval
\* - elapsed when elapsed < interval and not at all when elapsed >= interval;
\* the sleep never exceeds the interval and the unsigned subtraction does not
\* wrap.
C18_SleepsTheRemainder ==
    elapsed # None =>
        IF Less32(ToU32(elapsed), interval_millis)
        THEN /\ sleep_time # Unset
             /\ Add32(sleep_time, ToU32(elapsed)) = interval_millis
             /\ ~Less32(interval_millis, sleep_time)
        ELSE sleep_time = Unset

\* a tick that began 100 ms before millis() wraps took 144 ms of an interval
\* of 160 ms and sleeps 16 ms
C18_Witness ==
    /\ loop_start = Sub32(ToU32(0), ToU32(100))
    /\ elapsed = 144
    /\ interval_millis = ToU32(160)
    /\ sleep_time = ToU32(16)

\* C19: while blinker is the active pattern its blink state is toggled once
\* per tick, by the call for channel 0 only, so that it alternates from tick
\* to tick and all channels of a tick are sent with the one colour of the
\* tick's state.
C19_BlinkerTogglesOncePerTick ==
    /\ (loop_start # Unset /\ TickUpdates = <<>>) => blinker_on = on_at_start
    /\ (TickUpdates # <<>> /\ prog # 0) => blinker_on = on_at_start
    /\ (TickUpdates # <<>> /\ prog = 0) =>
          /\ blinker_on = ~on_at_start
          /\ \A k \in 1..Len(shown_log) :
                shown_log[k].pixels =
                    IF on_at_start THEN <<0, 0, 0>> ELSE <<255, 255, 255>>

\* a tick of blinker that began with the state on has sent all its channels
\* black
C19_Witness ==
    /\ pc = "pace"
    /\ prog = 0
    /\ on_at_start
    /\ ~blinker_on
    /\ Len(shown_log) = nr_strips
    /\ shown_log[nr_strips].pixels = <<0, 0, 0>>

====
